---- MODULE Spec2Model ----
(***************************************************************************)
(* Voucher approval workflow (voucher_system/vouchers): the designation    *)
(* registry, approver resolution, voucher submission and the multi-        *)
(* approver consensus of models.py / views.py / serializers.py.            *)
(*                                                                         *)
(* The database tables are the variables; req holds the requests being     *)
(* served, each at its position in its handler.  The store is a            *)
(* transactional relational store at READ COMMITTED (Django's default      *)
(* isolation level): a statement reads what is committed plus its own      *)
(* transaction's writes, and a row written by an open transaction is       *)
(* locked against other writers until that transaction ends.               *)
(*                                                                         *)
(* Spec serves the requests one at a time (one worker).  SpecConc serves   *)
(* two decision requests at once, interleaved statement by statement;      *)
(* SpecRace serves decision and configuration requests that way.           *)
(***************************************************************************)
EXTENDS Naturals, Sequences, FiniteSets, TLC

VARIABLES
    designations,   \* Designation table: sequence of names, id = index
    aad,            \* ActiveApprovalDesignation rows
    vouchers,       \* Voucher table: sequence of rows, id (pk) = index
    particulars,    \* Particular rows
    approvals,      \* VoucherApproval rows (committed)
    req,            \* per worker: the request it serves and where it stands
    now,            \* the clock that timezone.now() reads
    rejectedSince,  \* history: the vouchers on which a REJECTED decision was
                    \* committed since the active designations last changed
    lastCall        \* history: the last configuration request that completed
                    \* and what it left, while no other request has followed

vars == <<designations, aad, vouchers, particulars, approvals, req, now,
          rejectedSince, lastCall>>

---------------------------------------------------------------------------
(* Bounds of the model *)

MaxVouchers == 1

---------------------------------------------------------------------------
(* The user directory (auth_user, auth_group, UserProfile), as left by     *)
(* CreateUserView: three approvers, one superuser, one accountant.         *)

Users == {"u1", "u2", "u3", "su", "acc"}

Groups ==
    [u \in Users |->
        CASE u \in {"u1", "u2", "u3"} -> {"Admin Staff"}
          [] u = "acc" -> {"Accountants"}
          [] OTHER -> {}]

IsSuperuser == [u \in Users |-> u = "su"]

\* UserProfile.designation of the users that have a profile
Profile == [u \in {"u1", "u2", "u3"} |-> IF u = "u3" THEN 2 ELSE 1]

\* Designation names the registry is asked to create
Names == {"Manager", "Auditor", " Auditor ", " "}

\* who calls the registry endpoints: a superuser and a user who is none
\* (the decision endpoint is called by every user)
Callers == {"su", "u1"}

\* who calls the submission endpoint: an accountant and a user who is none
Submitters == {"acc", "u1"}

\* the workers serving requests
Workers == {"r1", "r2"}

---------------------------------------------------------------------------
(* Values *)

\* A text is a sequence of one-character strings
Digits == <<"0", "1", "2", "3", "4", "5", "6", "7", "8", "9">>

\* Python's str() of a non-negative int
RECURSIVE IntToStr(_)
IntToStr(n) ==
    IF n < 10 THEN <<Digits[n + 1]>>
    ELSE Append(IntToStr(n \div 10), Digits[(n % 10) + 1])

DigitValue(c) == CHOOSE d \in 0..9 : Digits[d + 1] = c

\* Python's int() of a text of decimal digits
RECURSIVE ParseInt(_)
ParseInt(s) ==
    IF Len(s) = 0 THEN 0
    ELSE 10 * ParseInt(SubSeq(s, 1, Len(s) - 1)) + DigitValue(s[Len(s)])

\* f'{num:04d}': zero-padded on the left to four digits
RECURSIVE ZeroPad(_, _)
ZeroPad(s, width) == IF Len(s) >= width THEN s ELSE ZeroPad(<<"0">> \o s, width)

VCH == <<"V", "C", "H">>

StartsWith(s, prefix) ==
    Len(s) >= Len(prefix) /\ SubSeq(s, 1, Len(prefix)) = prefix

\* Voucher.save: the number of a new voucher, from the voucher with the
\* highest id (None when the table is empty)
NextVoucherNumber(rows) ==
    IF Len(rows) > 0 /\ StartsWith(rows[Len(rows)].voucher_number, VCH)
    THEN LET lastnum == rows[Len(rows)].voucher_number
             num == ParseInt(SubSeq(lastnum, 4, Len(lastnum))) + 1
         IN  VCH \o ZeroPad(IntToStr(num), 4)
    ELSE VCH \o <<"0", "0", "0", "1">>

\* a JSON scalar of a request body: an int or a text
JInt(n) == [t |-> "int", v |-> n]
JStr(s) == [t |-> "str", v |-> s]

\* str(x) of ApprovalControlAPI.post
PyStr(x) == IF x.t = "int" THEN IntToStr(x.v) ELSE x.v

---------------------------------------------------------------------------
(* Approver resolution: Voucher.required_approvers *)

ActiveDesIds(rows) == {r.designation : r \in {x \in rows : x.is_active}}

RequiredApprovers(rows) ==
    {u \in DOMAIN Profile :
        /\ "Admin Staff" \in Groups[u]
        /\ Profile[u] \in ActiveDesIds(rows)}

\* mutant: the projection lists the Admin Staff users of every designation
\* that has an activation row, active or not
GetRequiredApprovers_AnyRow(rows) ==
    {u \in Users :
        /\ "Admin Staff" \in Groups[u]
        /\ u \in DOMAIN Profile
        /\ Profile[u] \in {r.designation : r \in rows}}

\* VoucherSerializer.get_required_approvers: the usernames of the User rows
\* in Admin Staff that have a profile with an active designation
GetRequiredApprovers(rows) ==
    {u \in Users :
        /\ "Admin Staff" \in Groups[u]
        /\ \E w \in DOMAIN Profile : w = u /\ Profile[w] \in ActiveDesIds(rows)}

---------------------------------------------------------------------------
(* Approval consensus: Voucher._update_status_if_all_approved.             *)
(* rows: the voucher's approval rows as the routine reads them; required:  *)
(* the required approvers it reads.  "return" is the early return that     *)
(* saves nothing; any other value is the status it saves.                  *)

\* mutant: approved as soon as the count reaches the number required
UpdateStatusIfAllApproved_AtLeast(rows, required) ==
    LET approved_count == Cardinality({r \in rows : r.status = "APPROVED"})
        has_rejection == \E r \in rows : r.status = "REJECTED"
    IN  IF required = {} THEN "return"
        ELSE IF has_rejection THEN "REJECTED"
        ELSE IF approved_count >= Cardinality(required) THEN "APPROVED"
        ELSE "PENDING"

\* mutant: the status is only ever promoted, never set back to PENDING
UpdateStatusIfAllApproved_NoPending(rows, required) ==
    LET approved_count == Cardinality({r \in rows : r.status = "APPROVED"})
        has_rejection == \E r \in rows : r.status = "REJECTED"
    IN  IF required = {} THEN "return"
        ELSE IF has_rejection THEN "REJECTED"
        ELSE IF approved_count = Cardinality(required) THEN "APPROVED"
        ELSE "return"

\* mutant: only the rows of the required approvers are counted
UpdateStatusIfAllApproved_RequiredOnly(rows, required) ==
    LET live == {r \in rows : r.approver \in required}
        approved_count == Cardinality({r \in live : r.status = "APPROVED"})
        has_rejection == \E r \in live : r.status = "REJECTED"
    IN  IF required = {} THEN "return"
        ELSE IF has_rejection THEN "REJECTED"
        ELSE IF approved_count = Cardinality(required) THEN "APPROVED"
        ELSE "PENDING"

UpdateStatusIfAllApproved(rows, required) ==
    LET approved_count == Cardinality({r \in rows : r.status = "APPROVED"})
        has_rejection == \E r \in rows : r.status = "REJECTED"
    IN  IF required = {} THEN "return"
        ELSE IF has_rejection THEN "REJECTED"
        ELSE IF approved_count = Cardinality(required) THEN "APPROVED"
        ELSE "PENDING"

\* voucher.approvals: the related manager of VoucherApproval.voucher
ApprovalsOf(rows, pk) == {r \in rows : r.voucher = pk}

\* mutant: create() in place of update_or_create()
UpsertApproval_AlwaysCreates(rows, pk, u, choice, at) ==
    LET mine == {r \in rows : r.voucher = pk /\ r.approver = u}
    IN  rows \cup {[voucher |-> pk, approver |-> u, status |-> choice,
                    approved_at |-> at, n |-> Cardinality(mine)]}

\* VoucherApproval.objects.update_or_create(voucher, approver, defaults)
\* at time at: the row of (voucher, approver) gets the status, or is
\* created with it.  approved_at is auto_now_add: set when the row is
\* created, left as it is when the row is updated.
\* n tells rows of one (voucher, approver) apart, as the row id does.
UpsertApproval(rows, pk, u, choice, at) ==
    LET mine == {r \in rows : r.voucher = pk /\ r.approver = u}
    IN  IF mine # {}
        THEN (rows \ mine) \cup {[r EXCEPT !.status = choice] : r \in mine}
        ELSE rows \cup {[voucher |-> pk, approver |-> u, status |-> choice,
                         approved_at |-> at, n |-> 0]}

---------------------------------------------------------------------------
(* Designation registry *)

\* name.strip()
Strip(s) ==
    CASE s = " Auditor " -> "Auditor"
      [] s = " " -> ""
      [] OTHER -> s

DesignationIds == 1..Len(designations)

\* mutant: the ids listed are toggled
IsListed_Toggle(d, active_ids) ==
    (IntToStr(d) \in {PyStr(x) : x \in active_ids})
        # (\E r \in aad : r.designation = d /\ r.is_active)

\* mutant: an incremental patch, a designation that is active stays active
IsListed_Patch(d, active_ids) ==
    \/ IntToStr(d) \in {PyStr(x) : x \in active_ids}
    \/ \E r \in aad : r.designation = d /\ r.is_active

\* is_active of ApprovalControlAPI.post for one designation
IsListed(d, active_ids) == IntToStr(d) \in {PyStr(x) : x \in active_ids}

\* ActiveApprovalDesignation.objects.update_or_create(designation, defaults)
UpsertActive(rows, d, is_active, u) ==
    LET mine == {r \in rows : r.designation = d}
    IN  IF mine # {}
        THEN (rows \ mine) \cup
             {[r EXCEPT !.is_active = is_active, !.updated_by = u] : r \in mine}
        ELSE rows \cup {[designation |-> d, is_active |-> is_active,
                         updated_by |-> u, n |-> 0]}

---------------------------------------------------------------------------
(* Voucher submission: the form of a request and its validation *)

Item(desc, amt) == [description |-> desc, amount |-> amt]

\* Decimal(amt) does not raise InvalidOperation
IsDecimal(amt) == amt \in {"100", "0"}

\* Decimal(amt) of a text that is a decimal
DecimalOf(amt) == IF amt = "100" THEN 100 ELSE 0

Form(items, att, ptype, cheque) ==
    [particulars |-> items, attachment |-> att,
     payment_type |-> ptype, cheque_number |-> cheque]

\* attachment: "none" (no file), "pdf" (4 MB pdf), "big" (6 MB pdf), "exe"
Forms ==
    {Form(<<Item("rent", "100")>>, "pdf", "CASH", "1204"),
     Form(<<Item("rent", "100")>>, "pdf", "CHEQUE", "1204"),
     Form(<<Item("rent", "100")>>, "pdf", "CHEQUE", "12A4"),
     Form(<<Item("rent", "100")>>, "pdf", "CHEQUE", ""),
     Form(<<Item("rent", "100")>>, "none", "CASH", ""),
     Form(<<Item("rent", "100")>>, "big", "CASH", ""),
     Form(<<Item("rent", "100")>>, "exe", "CASH", ""),
     Form(<<>>, "pdf", "CASH", ""),
     Form(<<Item("", "100")>>, "pdf", "CASH", ""),
     Form(<<Item("rent", "100"), Item("taxi", "")>>, "pdf", "CASH", ""),
     Form(<<Item("rent", "100"), Item("taxi", "0")>>, "pdf", "CASH", ""),
     Form(<<Item("rent", "abc")>>, "pdf", "CASH", "")}

\* the particulars the view re-builds: the items with a description and an amount
RECURSIVE Rebuilt(_)
Rebuilt(items) ==
    IF Len(items) = 0 THEN <<>>
    ELSE LET rest == Rebuilt(SubSeq(items, 1, Len(items) - 1))
             it == items[Len(items)]
         IN  IF it.description # "" /\ it.amount # "" THEN Append(rest, it) ELSE rest

IsDigits(s) == s = "1204"

\* VoucherCreateAPI.post up to serializer.is_valid(): 0 when the form is
\* valid, else the status of the error response
FormError(f) ==
    LET kept == Rebuilt(f.particulars)
        cheque_number == IF f.payment_type = "CHEQUE" THEN f.cheque_number ELSE "null"
    IN  IF \E i \in 1..Len(kept) :
              ~IsDecimal(kept[i].amount) \/ DecimalOf(kept[i].amount) <= 0
        THEN 400
        ELSE IF Len(kept) = 0 THEN 400
        ELSE IF f.attachment = "none" THEN 400
        ELSE IF f.attachment \in {"big", "exe"} THEN 400
        ELSE IF f.payment_type = "CHEQUE" /\ cheque_number = "" THEN 400
        ELSE IF f.payment_type = "CHEQUE" /\ ~IsDigits(cheque_number) THEN 400
        ELSE 0

---------------------------------------------------------------------------
(* Requests *)

\* at: the time of the request's write of an approval row; out: what the
\* response carries besides its status
Idle ==
    [pc |-> "idle", op |-> "none", user |-> "none", pk |-> 0,
     arg |-> "none", code |-> 0, loc |-> "none", at |-> 0, out |-> "none"]

Request(op, u, pk, arg) ==
    [pc |-> "start", op |-> op, user |-> u, pk |-> pk,
     arg |-> arg, code |-> 0, loc |-> "none", at |-> 0, out |-> "none"]

\* the request ends with a response of this status
Respond(r, code) == [r EXCEPT !.pc = "done", !.code = code]

Goto(r, pc) == [r EXCEPT !.pc = pc]

\* the statuses a decision request may send
Choices == {"APPROVED", "REJECTED", "PENDING"}

\* the bodies a configuration request may send
\* the lists of ids sent: none, ids of designations as numbers and as
\* text, the id of no designation (3, until a third designation is
\* created), a text that is no id's text
IdLists ==
    { {}, {JInt(1)}, {JInt(2)}, {JInt(1), JInt(2)}, {JInt(1), JInt(3)},
      {JStr(<<"2">>)}, {JInt(1), JStr(<<"0", "1">>)}, {JInt(1), JInt(2), JInt(3)} }

Bodies ==
    {[is_list |-> TRUE, ids |-> ids] : ids \in IdLists}
        \cup {[is_list |-> FALSE, ids |-> {}]}

\* no configuration request is remembered
NoCall == [made |-> FALSE, again |-> FALSE, body |-> [is_list |-> FALSE, ids |-> {}],
           flags |-> {}, required |-> {}]

Init ==
    /\ designations = <<"Manager", "Director">>
    /\ aad = {}
    /\ vouchers = <<>>
    /\ particulars = {}
    /\ approvals = {}
    /\ req = [p \in Workers |-> Idle]
    /\ now = 0
    /\ rejectedSince = {}
    /\ lastCall = NoCall

Range(f) == {f[i] : i \in DOMAIN f}

Min(S) == CHOOSE x \in S : \A y \in S : x <= y

---------------------------------------------------------------------------
(* DesignationCreateAPI.post *)

\* mutant: the superuser check comes after the row is written
DesignationCreate_WritesFirst(p, u, raw) ==
    LET r == Request("create", u, 0, raw)
        name == Strip(raw)
    IN  /\ req[p].pc = "idle"
        /\ IF name = "" \/ name \in Range(designations)
           THEN /\ req' = [req EXCEPT ![p] =
                        Respond(r, IF IsSuperuser[u] THEN 400 ELSE 403)]
                /\ UNCHANGED designations
           ELSE /\ designations' = Append(designations, name)
                /\ req' = [req EXCEPT ![p] =
                        Respond(r, IF IsSuperuser[u] THEN 201 ELSE 403)]
        /\ UNCHANGED <<aad, vouchers, particulars, approvals>>

DesignationCreate(p, u, raw) ==
    LET r == Request("create", u, 0, raw)
        name == Strip(raw)
    IN  /\ req[p].pc = "idle"
        /\ IF ~IsSuperuser[u]
           THEN /\ req' = [req EXCEPT ![p] = Respond(r, 403)]
                /\ UNCHANGED designations
           ELSE IF name = ""
           THEN /\ req' = [req EXCEPT ![p] = Respond(r, 400)]
                /\ UNCHANGED designations
           ELSE IF name \in Range(designations)
           THEN /\ req' = [req EXCEPT ![p] = Respond(r, 400)]
                /\ UNCHANGED designations
           ELSE /\ designations' = Append(designations, name)
                /\ req' = [req EXCEPT ![p] = Respond(r, 201)]
        /\ UNCHANGED <<aad, vouchers, particulars, approvals>>

---------------------------------------------------------------------------
(* ApprovalControlAPI.post: the checks, then one update_or_create per      *)
(* designation, each committed on its own (no transaction spans the loop)  *)

SetActiveBegin(p, u, body) ==
    LET r == Request("setactive", u, 0, body)
    IN  /\ req[p].pc = "idle"
        /\ req' = [req EXCEPT ![p] =
                IF ~IsSuperuser[u] THEN Respond(r, 403)
                ELSE IF ~body.is_list THEN Respond(r, 400)
                ELSE IF DesignationIds = {} THEN Respond(r, 200)
                ELSE [r EXCEPT !.pc = "loop", !.loc = DesignationIds]]
        /\ UNCHANGED <<designations, aad, vouchers, particulars, approvals>>

\* mutant: a change of the activation rows sets the vouchers back to PENDING
SetActiveStep_ResetsStatuses(p) ==
    LET r == req[p]
        d == Min(r.loc)
        left == r.loc \ {d}
    IN  /\ r.pc = "loop"
        /\ aad' = UpsertActive(aad, d, IsListed(d, r.arg.ids), r.user)
        /\ vouchers' = IF ActiveDesIds(aad') = ActiveDesIds(aad) THEN vouchers
                       ELSE [i \in 1..Len(vouchers) |->
                                [vouchers[i] EXCEPT !.status = "PENDING"]]
        /\ req' = [req EXCEPT ![p] =
                IF left = {} THEN Respond([r EXCEPT !.loc = "none"], 200)
                ELSE [r EXCEPT !.loc = left]]
        /\ UNCHANGED <<designations, particulars, approvals>>

SetActiveStep(p) ==
    LET r == req[p]
        d == Min(r.loc)
        left == r.loc \ {d}
    IN  /\ r.pc = "loop"
        /\ aad' = UpsertActive(aad, d, IsListed(d, r.arg.ids), r.user)
        /\ req' = [req EXCEPT ![p] =
                IF left = {} THEN Respond([r EXCEPT !.loc = "none"], 200)
                ELSE [r EXCEPT !.loc = left]]
        /\ UNCHANGED <<designations, vouchers, particulars, approvals>>

---------------------------------------------------------------------------
(* VoucherApprovalAPI.post *)

\* the row of (voucher, approver) is written by an open transaction of
\* another worker
ApprovalLocked(p, pk, u) ==
    \E q \in Workers \ {p} :
        /\ req[q].op = "decide"
        /\ req[q].pc \in {"recompute", "save", "commit"}
        /\ req[q].pk = pk
        /\ req[q].user = u

\* the voucher row is written by an open transaction of another worker
VoucherLocked(p, pk) ==
    \E q \in Workers \ {p} :
        /\ req[q].op = "decide"
        /\ req[q].pc = "commit"
        /\ req[q].pk = pk
        /\ req[q].loc # "return"

\* dispatch of AdminStaffRequiredMixin, then post up to the authorization
DecideBegin(p, u, pk, choice) ==
    LET r == Request("decide", u, pk, choice)
    IN  /\ req[p].pc = "idle"
        /\ req' = [req EXCEPT ![p] =
                IF ~("Admin Staff" \in Groups[u] \/ IsSuperuser[u])
                THEN Respond(r, 302)
                ELSE IF pk \notin 1..Len(vouchers) THEN Respond(r, 404)
                ELSE IF choice \notin {"APPROVED", "REJECTED"} THEN Respond(r, 400)
                ELSE IF u \notin RequiredApprovers(aad) THEN Respond(r, 403)
                ELSE Goto(r, "upsert")]
        /\ UNCHANGED <<designations, aad, vouchers, particulars, approvals>>

\* transaction.atomic(): update_or_create writes the approval row
DecideUpsert(p) ==
    LET r == req[p]
    IN  /\ r.pc = "upsert"
        /\ ~ApprovalLocked(p, r.pk, r.user)
        /\ req' = [req EXCEPT ![p] = [r EXCEPT !.pc = "recompute", !.at = now]]
        /\ UNCHANGED <<designations, aad, vouchers, particulars, approvals>>

\* the approval rows the transaction of request r reads: the committed
\* rows and its own write
RowsSeenBy(r) == UpsertApproval(approvals, r.pk, r.user, r.arg, r.at)

\* _update_status_if_all_approved: its reads and the status it decides on
DecideRecompute(p) ==
    LET r == req[p]
        status == UpdateStatusIfAllApproved(ApprovalsOf(RowsSeenBy(r), r.pk),
                                            RequiredApprovers(aad))
    IN  /\ r.pc = "recompute"
        /\ req' = [req EXCEPT ![p] =
                [r EXCEPT !.loc = status,
                          !.pc = IF status = "return" THEN "commit" ELSE "save"]]
        /\ UNCHANGED <<designations, aad, vouchers, particulars, approvals>>

\* self.save(update_fields=['status']): the UPDATE of the voucher row
DecideSave(p) ==
    LET r == req[p]
    IN  /\ r.pc = "save"
        /\ ~VoucherLocked(p, r.pk)
        /\ req' = [req EXCEPT ![p] = Goto(r, "commit")]
        /\ UNCHANGED <<designations, aad, vouchers, particulars, approvals>>

\* what the response to decision request r carries: the voucher projection
\* (its required_approvers) and approved_at of the approval object that
\* update_or_create returned
DecisionResponse(r) ==
    LET approval == CHOOSE a \in RowsSeenBy(r) : a.voucher = r.pk /\ a.approver = r.user
    IN  [required_approvers |-> GetRequiredApprovers(aad),
         approved_at |-> approval.approved_at]

\* mutant: the voucher takes the status of the decision just recorded
DecideCommit_StoresChoice(p) ==
    LET r == req[p]
    IN  /\ r.pc = "commit"
        /\ approvals' = RowsSeenBy(r)
        /\ vouchers' = IF r.loc = "return" THEN vouchers
                       ELSE [vouchers EXCEPT ![r.pk].status = r.arg]
        /\ req' = [req EXCEPT ![p] = Respond([r EXCEPT !.out = DecisionResponse(r)], 200)]
        /\ UNCHANGED <<designations, aad, particulars>>

\* the atomic block ends: the transaction's writes are committed
DecideCommit(p) ==
    LET r == req[p]
    IN  /\ r.pc = "commit"
        /\ approvals' = RowsSeenBy(r)
        /\ vouchers' = IF r.loc = "return" THEN vouchers
                       ELSE [vouchers EXCEPT ![r.pk].status = r.loc]
        /\ req' = [req EXCEPT ![p] = Respond([r EXCEPT !.out = DecisionResponse(r)], 200)]
        /\ UNCHANGED <<designations, aad, particulars>>

---------------------------------------------------------------------------
(* VoucherCreateAPI.post *)

Submitting == {q \in Workers : req[q].op = "submit" /\ req[q].pc \in {"number", "insert"}}

\* the bound on the Voucher table: a submission that passes validation is
\* taken only while the table, with the submissions under way, stays
\* within max rows
Room(u, f, max) ==
    ("Accountants" \in Groups[u] /\ FormError(f) = 0)
        => Len(vouchers) + Cardinality(Submitting) < max

\* dispatch of AccountantRequiredMixin, then post up to serializer.is_valid()
SubmitBegin(p, u, f) ==
    LET r == Request("submit", u, 0, f)
    IN  /\ req[p].pc = "idle"
        /\ req' = [req EXCEPT ![p] =
                IF "Accountants" \notin Groups[u] THEN Respond(r, 302)
                ELSE IF FormError(f) # 0 THEN Respond(r, FormError(f))
                ELSE Goto(r, "number")]
        /\ UNCHANGED <<designations, aad, vouchers, particulars, approvals>>

\* mutant: the number is drawn after the numbers that submissions under
\* way have drawn, as from a sequence
SubmitNumber_Reserves(p) ==
    LET r == req[p]
        drawn == {q \in Workers : req[q].op = "submit" /\ req[q].pc = "insert"}
        reserved == [i \in 1..Cardinality(drawn) |->
                        [voucher_number |-> req[CHOOSE q \in drawn : TRUE].loc]]
    IN  /\ r.pc = "number"
        /\ req' = [req EXCEPT ![p] =
                [r EXCEPT !.pc = "insert",
                          !.loc = NextVoucherNumber(vouchers \o reserved)]]
        /\ UNCHANGED <<designations, aad, vouchers, particulars, approvals>>

\* Voucher.save: the voucher number, from the last voucher read
SubmitNumber(p) ==
    LET r == req[p]
    IN  /\ r.pc = "number"
        /\ req' = [req EXCEPT ![p] =
                [r EXCEPT !.pc = "insert", !.loc = NextVoucherNumber(vouchers)]]
        /\ UNCHANGED <<designations, aad, vouchers, particulars, approvals>>

\* mutant: voucher_number is not unique, the INSERT is never refused
SubmitInsert_NoUnique(p) ==
    LET r == req[p]
    IN  /\ r.pc = "insert"
        /\ vouchers' = Append(vouchers,
                [voucher_number |-> r.loc, status |-> "PENDING", created_by |-> r.user])
        /\ req' = [req EXCEPT ![p] =
                [r EXCEPT !.pk = Len(vouchers) + 1, !.pc = "particulars", !.loc = 1]]
        /\ UNCHANGED <<designations, aad, particulars, approvals>>

\* Voucher.objects.create in VoucherSerializer.create: the INSERT, refused
\* when the number is taken (unique); nothing encloses it in a transaction,
\* so the row is committed at once
SubmitInsert(p) ==
    LET r == req[p]
    IN  /\ r.pc = "insert"
        /\ IF \E i \in 1..Len(vouchers) : vouchers[i].voucher_number = r.loc
           THEN /\ req' = [req EXCEPT ![p] = Respond(r, 500)]
                /\ UNCHANGED vouchers
           ELSE /\ vouchers' = Append(vouchers,
                        [voucher_number |-> r.loc, status |-> "PENDING",
                         created_by |-> r.user])
                /\ req' = [req EXCEPT ![p] =
                        [r EXCEPT !.pk = Len(vouchers) + 1, !.pc = "particulars", !.loc = 1]]
        /\ UNCHANGED <<designations, aad, particulars, approvals>>

\* one Particular.objects.create of the loop of VoucherSerializer.create,
\* committed at once; after the last one the response (201)
SubmitParticular(p) ==
    LET r == req[p]
        kept == Rebuilt(r.arg.particulars)
        it == kept[r.loc]
    IN  /\ r.pc = "particulars"
        /\ particulars' = particulars \cup
                {[voucher |-> r.pk, n |-> r.loc, description |-> it.description,
                  amount |-> DecimalOf(it.amount)]}
        /\ req' = [req EXCEPT ![p] =
                IF r.loc = Len(kept) THEN Respond(r, 201) ELSE [r EXCEPT !.loc = r.loc + 1]]
        /\ UNCHANGED <<designations, aad, vouchers, approvals>>

\* a Particular.objects.create fails (the store or the file storage raises):
\* the exception ends the request with a server error
SubmitParticularFails(p) ==
    LET r == req[p]
    IN  /\ r.pc = "particulars"
        /\ req' = [req EXCEPT ![p] = Respond(r, 500)]
        /\ UNCHANGED <<designations, aad, vouchers, particulars, approvals>>

---------------------------------------------------------------------------
(* The response is sent; the worker is free again *)

Return(p) ==
    /\ req[p].pc = "done"
    /\ req' = [req EXCEPT ![p] = Idle]
    /\ UNCHANGED <<designations, aad, vouchers, particulars, approvals>>

---------------------------------------------------------------------------
(* The history variables: they record what a step did and constrain no     *)
(* step.                                                                   *)

ObserveRejections ==
    LET committed == {q \in Workers : req[q].pc = "commit" /\ req'[q].pc = "done"}
        rejecting == {req[q].pk : q \in {w \in committed : req[w].arg = "REJECTED"}}
    IN  rejectedSince' =
            IF ActiveDesIds(aad') # ActiveDesIds(aad) THEN {}
            ELSE rejectedSince \cup rejecting

Observe == ObserveRejections /\ UNCHANGED <<now, lastCall>>

\* the activation flags as stored
Flags(rows) == {<<r.designation, r.is_active>> : r \in rows}

\* lastCall: set when a configuration request completes with 200 (again:
\* it repeats the body of the one remembered), forgotten when a
\* configuration request fails or any other request is taken
ObserveCalls ==
    LET ends == {q \in Workers : req[q].pc # "done" /\ req'[q].pc = "done"
                                    /\ req'[q].op = "setactive"}
        others == {q \in Workers : req[q].pc = "idle" /\ req'[q].pc # "idle"
                                      /\ req'[q].op # "setactive"}
    IN  /\ ObserveRejections
        /\ UNCHANGED now
        /\ lastCall' =
              IF \E q \in ends : req'[q].code = 200
              THEN LET q == CHOOSE w \in ends : req'[w].code = 200
                   IN  [made |-> TRUE,
                        again |-> lastCall.made /\ lastCall.body = req'[q].arg,
                        body |-> req'[q].arg, flags |-> Flags(aad'),
                        required |-> RequiredApprovers(aad')]
              ELSE IF ends # {} \/ others # {} THEN NoCall
              ELSE lastCall

---------------------------------------------------------------------------
(* Spec: one worker, so the requests are served one after the other *)

Next ==
    \/ \E u \in Callers, raw \in Names : DesignationCreate("r1", u, raw) /\ Observe
    \/ \E u \in Callers, body \in Bodies : SetActiveBegin("r1", u, body) /\ Observe
    \/ SetActiveStep("r1") /\ Observe
    \/ \E u \in Users, pk \in 1..(MaxVouchers + 1), choice \in Choices :
            DecideBegin("r1", u, pk, choice) /\ Observe
    \/ DecideUpsert("r1") /\ Observe
    \/ DecideRecompute("r1") /\ Observe
    \/ DecideSave("r1") /\ Observe
    \/ DecideCommit("r1") /\ Observe
    \/ \E u \in Submitters, f \in Forms :
            SubmitBegin("r1", u, f) /\ Room(u, f, MaxVouchers) /\ Observe
    \/ SubmitNumber("r1") /\ Observe
    \/ SubmitInsert("r1") /\ Observe
    \/ SubmitParticular("r1") /\ Observe
    \/ Return("r1") /\ Observe

Spec == Init /\ [][Next]_vars

---------------------------------------------------------------------------
(* Two workers serve requests at the same time.  The state they start in   *)
(* is the one a configuration request and a submission leave: an           *)
(* activation row for each designation and one pending voucher.            *)

InitConc ==
    /\ designations = <<"Manager", "Director">>
    /\ \E a1, a2 \in BOOLEAN :
            aad = {[designation |-> 1, is_active |-> a1, updated_by |-> "su", n |-> 0],
                   [designation |-> 2, is_active |-> a2, updated_by |-> "su", n |-> 0]}
    /\ vouchers = <<[voucher_number |-> NextVoucherNumber(<<>>), status |-> "PENDING",
                     created_by |-> "acc"]>>
    /\ particulars = {[voucher |-> 1, n |-> 1, description |-> "rent", amount |-> 100]}
    /\ approvals = {}
    /\ req = [p \in Workers |-> Idle]
    /\ now = 0
    /\ rejectedSince = {}
    /\ lastCall = NoCall

\* SpecConc: concurrent decision requests
NextConc ==
    \E p \in Workers :
        \/ \E u \in DOMAIN Profile, choice \in {"APPROVED", "REJECTED"} :
                DecideBegin(p, u, 1, choice) /\ Observe
        \/ DecideUpsert(p) /\ Observe
        \/ DecideRecompute(p) /\ Observe
        \/ DecideSave(p) /\ Observe
        \/ DecideCommit(p) /\ Observe
        \/ Return(p) /\ Observe

SpecConc == InitConc /\ [][NextConc]_vars

\* SpecRace: decision requests concurrent with configuration requests
BodiesRace == {[is_list |-> TRUE, ids |-> ids] : ids \in SUBSET {JInt(1), JInt(2)}}

NextRace ==
    \E p \in Workers :
        \/ \E body \in BodiesRace : SetActiveBegin(p, "su", body) /\ Observe
        \/ SetActiveStep(p) /\ Observe
        \/ \E u \in DOMAIN Profile, choice \in {"APPROVED", "REJECTED"} :
                DecideBegin(p, u, 1, choice) /\ Observe
        \/ DecideUpsert(p) /\ Observe
        \/ DecideRecompute(p) /\ Observe
        \/ DecideSave(p) /\ Observe
        \/ DecideCommit(p) /\ Observe
        \/ Return(p) /\ Observe

SpecRace == InitConc /\ [][NextRace]_vars

---------------------------------------------------------------------------
(* SpecTwice: the registry requests served one at a time, with the last    *)
(* completed configuration request remembered                              *)

NextTwice ==
    \/ \E u \in Callers, raw \in Names : DesignationCreate("r1", u, raw) /\ ObserveCalls
    \/ \E u \in Callers, body \in Bodies : SetActiveBegin("r1", u, body) /\ ObserveCalls
    \/ SetActiveStep("r1") /\ ObserveCalls
    \/ Return("r1") /\ ObserveCalls

SpecTwice == Init /\ [][NextTwice]_vars

---------------------------------------------------------------------------
(* SpecSubmit: two workers serve submissions at the same time.  The        *)
(* Voucher table starts empty or with its last row, which is all that      *)
(* Voucher.save reads of the rows before: the row stands for the table of  *)
(* a system that has numbered that many vouchers.                          *)

MaxNumbered == 3

LastNumbers == {1, 9, 99, 9999}

VoucherNumbered(n) ==
    [voucher_number |-> VCH \o ZeroPad(IntToStr(n), 4), status |-> "PENDING",
     created_by |-> "acc"]

InitSubmit ==
    /\ designations = <<"Manager", "Director">>
    /\ aad = {}
    /\ \/ vouchers = <<>> /\ particulars = {}
       \/ /\ \E n \in LastNumbers : vouchers = <<VoucherNumbered(n)>>
          /\ particulars = {[voucher |-> 1, n |-> 1, description |-> "rent", amount |-> 100]}
    /\ approvals = {}
    /\ req = [p \in Workers |-> Idle]
    /\ now = 0
    /\ rejectedSince = {}
    /\ lastCall = NoCall

NextSubmit ==
    \E p \in Workers :
        \/ \E f \in Forms :
                SubmitBegin(p, "acc", f) /\ Room("acc", f, MaxNumbered) /\ Observe
        \/ SubmitNumber(p) /\ Observe
        \/ SubmitInsert(p) /\ Observe
        \/ SubmitParticular(p) /\ Observe
        \/ Return(p) /\ Observe

SpecSubmit == InitSubmit /\ [][NextSubmit]_vars

---------------------------------------------------------------------------
(* SpecFault: the submissions of SpecSubmit, where a write of a particular *)
(* may fail.                                                               *)

NextFault ==
    \/ NextSubmit
    \/ \E p \in Workers : SubmitParticularFails(p) /\ Observe

SpecFault == InitSubmit /\ [][NextFault]_vars

---------------------------------------------------------------------------
(* SpecClock: decision requests served one after the other while time      *)
(* passes; now is what timezone.now() returns.                             *)

MaxClock == 2

Tick ==
    /\ now < MaxClock
    /\ now' = now + 1
    /\ UNCHANGED <<designations, aad, vouchers, particulars, approvals, req,
                   rejectedSince, lastCall>>

NextClock ==
    \/ \E u \in DOMAIN Profile, choice \in {"APPROVED", "REJECTED"} :
            DecideBegin("r1", u, 1, choice) /\ Observe
    \/ DecideUpsert("r1") /\ Observe
    \/ DecideRecompute("r1") /\ Observe
    \/ DecideSave("r1") /\ Observe
    \/ DecideCommit("r1") /\ Observe
    \/ Return("r1") /\ Observe
    \/ Tick

SpecClock == InitConc /\ [][NextClock]_vars

---------------------------------------------------------------------------
(* SpecPair: decisions on two vouchers served at the same time, one worker *)
(* per voucher, by one user of each designation; the second worker also    *)
(* serves the submission that adds the second voucher, the configuration   *)
(* requests and the designation creation.                                  *)

MaxPair == 2

Deciders == {"u1", "u3"}

\* the configuration requests of SpecPair: designation 1 alone, designation
\* 2 alone
BodiesPair == {[is_list |-> TRUE, ids |-> {JInt(d)}] : d \in {1, 2}}

\* the voucher on which a worker serves decision requests in SpecPair
Desk == [p \in Workers |-> IF p = "r1" THEN 1 ELSE 2]

NextPair ==
    \/ \E p \in Workers :
            \/ \E u \in Deciders, choice \in {"APPROVED", "REJECTED"} :
                    DecideBegin(p, u, Desk[p], choice) /\ Observe
            \/ DecideUpsert(p) /\ Observe
            \/ DecideRecompute(p) /\ Observe
            \/ DecideSave(p) /\ Observe
            \/ DecideCommit(p) /\ Observe
            \/ Return(p) /\ Observe
    \/ DesignationCreate("r2", "su", "Auditor") /\ Observe
    \/ \E body \in BodiesPair : SetActiveBegin("r2", "su", body) /\ Observe
    \/ SetActiveStep("r2") /\ Observe
    \/ \E f \in {Form(<<Item("rent", "100")>>, "pdf", "CASH", "1204")} :
            SubmitBegin("r2", "acc", f) /\ Room("acc", f, MaxPair) /\ Observe
    \/ SubmitNumber("r2") /\ Observe
    \/ SubmitInsert("r2") /\ Observe
    \/ SubmitParticular("r2") /\ Observe

SpecPair == InitConc /\ [][NextPair]_vars

---------------------------------------------------------------------------
(* The terms of the claims, stated from the specification's definitions    *)

\* the required approvers: the Admin Staff users whose profile's
\* designation is active
Eligible ==
    {u \in Users :
        /\ "Admin Staff" \in Groups[u]
        /\ u \in DOMAIN Profile
        /\ \E r \in aad : r.designation = Profile[u] /\ r.is_active}

RecordsOn(pk) == {r \in approvals : r.voucher = pk}
ApprovedOn(pk) == {r \in RecordsOn(pk) : r.status = "APPROVED"}
RejectedOn(pk) == {r \in RecordsOn(pk) : r.status = "REJECTED"}
StatusOf(pk) == vouchers[pk].status

\* worker p has completed a successful request of this kind and has not
\* yet taken the next one
Completed(p, op) == req[p].pc = "done" /\ req[p].op = op /\ req[p].code = 200

\* no request is being served
Quiet == \A p \in Workers : req[p].pc \in {"idle", "done"}

---------------------------------------------------------------------------
(* C1: whenever a decision request on voucher v completes with v APPROVED, *)
(* every required approver has an APPROVED record on v.                    *)

C1_FinalizedOnlyWhenAllRequiredApproved ==
    \A p \in Workers :
        (Completed(p, "decide") /\ StatusOf(req[p].pk) = "APPROVED")
            => \A u \in Eligible : \E r \in ApprovedOn(req[p].pk) : r.approver = u

---------------------------------------------------------------------------
(* C2: right after a successful decision request on v, v is APPROVED iff   *)
(* the number of APPROVED records on v equals the number of required       *)
(* approvers and v has no REJECTED record; otherwise it is REJECTED when a *)
(* REJECTED record exists and PENDING when none does.                      *)

C2_StatusAfterDecision ==
    \A p \in Workers :
        Completed(p, "decide") =>
            LET pk == req[p].pk
                all_approved ==
                    /\ Cardinality(ApprovedOn(pk)) = Cardinality(Eligible)
                    /\ RejectedOn(pk) = {}
            IN  /\ StatusOf(pk) = "APPROVED" <=> all_approved
                /\ ~all_approved =>
                      StatusOf(pk) = IF RejectedOn(pk) # {} THEN "REJECTED" ELSE "PENDING"

\* a decision completed that made the voucher APPROVED with two approvals
C2_Witness ==
    \E p \in Workers :
        /\ Completed(p, "decide")
        /\ StatusOf(req[p].pk) = "APPROVED"
        /\ Cardinality(ApprovedOn(req[p].pk)) = 2

---------------------------------------------------------------------------
(* C3: in every reachable state each voucher's stored status equals what   *)
(* the consensus recomputation yields from the voucher's approval records  *)
(* and the active designations (a recomputation with no required approver  *)
(* leaves any status as it is).                                            *)

\* the status the state machine of the specification gives a voucher
Consensus(pk) ==
    IF RejectedOn(pk) # {} THEN "REJECTED"
    ELSE IF Cardinality(ApprovedOn(pk)) = Cardinality(Eligible) THEN "APPROVED"
    ELSE "PENDING"

C3_StatusIsRecomputation ==
    \A pk \in 1..Len(vouchers) : Eligible # {} => StatusOf(pk) = Consensus(pk)

\* worker p commits a decision in this step
Commits(p) == req[p].op = "decide" /\ req[p].pc = "commit" /\ req'[p].pc = "done"

\* worker p's transaction runs the recomputation in this step
Recomputes(p) ==
    req[p].op = "decide" /\ req[p].pc = "recompute" /\ req'[p].pc # "recompute"

\* what the state machine of the specification yields from the records
\* worker p's transaction reads on its voucher (the committed records of
\* the other users and its own decision) and the active designations
ConsensusSeenBy(p) ==
    LET others == {r \in RecordsOn(req[p].pk) : r.approver # req[p].user}
        approved == Cardinality({r \in others : r.status = "APPROVED"})
                        + (IF req[p].arg = "APPROVED" THEN 1 ELSE 0)
        rejected == req[p].arg = "REJECTED" \/ \E r \in others : r.status = "REJECTED"
    IN  IF Eligible = {} THEN "return"
        ELSE IF rejected THEN "REJECTED"
        ELSE IF approved = Cardinality(Eligible) THEN "APPROVED"
        ELSE "PENDING"

(* C3, amended: a voucher's stored status changes only in the step that    *)
(* commits a successful decision request on that voucher, and the status   *)
(* stored then is what that request's consensus recomputation yielded from *)
(* the approval records and the active designations it read; no other      *)
(* operation writes it, so after a configuration request the stored status *)
(* can differ from the recomputation until the next decision.              *)

C3_StatusWrittenOnlyByRecomputation ==
    [][/\ \A p \in Workers :
            Recomputes(p) => req'[p].loc = ConsensusSeenBy(p)
       /\ \A pk \in 1..Len(vouchers) :
            vouchers'[pk].status # vouchers[pk].status =>
                \E p \in Workers :
                    /\ Commits(p)
                    /\ req[p].pk = pk
                    /\ req'[p].code = 200
                    /\ vouchers'[pk].status = req[p].loc]_vars

\* a configuration request completed and left a stored status that the
\* recomputation would not yield
C3_Witness ==
    \E p \in Workers :
        /\ Completed(p, "setactive")
        /\ \E pk \in 1..Len(vouchers) :
              Eligible # {} /\ StatusOf(pk) = "APPROVED" /\ Consensus(pk) = "PENDING"

---------------------------------------------------------------------------
(* C4: once a required approver has recorded REJECTED on v, v is REJECTED  *)
(* and stays REJECTED through every later decision request on v for as     *)
(* long as the set of active designations does not change.                 *)

C4_RejectedStaysRejected ==
    Quiet => \A pk \in rejectedSince : StatusOf(pk) = "REJECTED"

---------------------------------------------------------------------------
(* C5: a decision request (existing voucher, valid decision) by a user who *)
(* is not a required approver gets 403 and changes neither the approval    *)
(* records nor the vouchers.                                               *)

\* worker p takes a decision request, well-formed, from a user who is not
\* a required approver
TakesUnrequired(p) ==
    /\ req[p].pc = "idle"
    /\ req'[p].op = "decide"
    /\ req'[p].pk \in 1..Len(vouchers)
    /\ req'[p].arg \in {"APPROVED", "REJECTED"}
    /\ req'[p].user \notin Eligible

C5_NotRequiredIsForbidden ==
    [][\A p \in Workers :
          TakesUnrequired(p) =>
              /\ req'[p].pc = "done"
              /\ req'[p].code = 403
              /\ approvals' = approvals
              /\ vouchers' = vouchers]_vars

(* What the code does with such a request: it changes neither the approval *)
(* records nor the vouchers; it answers 403 when the user is in Admin Staff *)
(* or is a superuser, and redirects (302) a user who is neither.            *)

C5_NotRequiredIsRefused ==
    [][\A p \in Workers :
          TakesUnrequired(p) =>
              /\ req'[p].pc = "done"
              /\ req'[p].code =
                    IF "Admin Staff" \in Groups[req'[p].user] \/ IsSuperuser[req'[p].user]
                    THEN 403 ELSE 302
              /\ approvals' = approvals
              /\ vouchers' = vouchers]_vars

\* a superuser, and an Admin Staff user whose designation is inactive, got 403
C5_Witness ==
    \E p \in Workers :
        /\ req[p].pc = "done" /\ req[p].op = "decide" /\ req[p].code = 403
        /\ req[p].user \notin Eligible
        /\ \/ IsSuperuser[req[p].user]
           \/ /\ "Admin Staff" \in Groups[req[p].user]
              /\ \E r \in aad : r.designation = Profile[req[p].user] /\ ~r.is_active
        /\ Eligible # {}

---------------------------------------------------------------------------
(* C6: there is at most one approval record per (voucher, approver), also  *)
(* after repeated or concurrent decisions of one approver on one voucher:  *)
(* the commit of a decision leaves exactly one record of its (voucher,     *)
(* approver), carrying its decision, and adds no record when one existed.  *)

RecordsOf(pk, u) == {r \in approvals : r.voucher = pk /\ r.approver = u}

C6_OneRecordPerPair ==
    [][\A p \in Workers :
          Commits(p) =>
              /\ \A pk \in 1..Len(vouchers), u \in Users :
                    Cardinality(RecordsOf(pk, u)') <= 1
              /\ \A r \in RecordsOf(req[p].pk, req[p].user)' : r.status = req[p].arg
              /\ RecordsOf(req[p].pk, req[p].user)' # {}
              /\ RecordsOf(req[p].pk, req[p].user) # {} =>
                    Cardinality(approvals') = Cardinality(approvals)]_vars

\* two requests of one approver on one voucher, with different decisions,
\* were served at the same time and both are committed
C6_Witness ==
    /\ Completed("r1", "decide") /\ Completed("r2", "decide")
    /\ req["r1"].user = req["r2"].user
    /\ req["r1"].pk = req["r2"].pk
    /\ req["r1"].arg # req["r2"].arg
    /\ Cardinality(RecordsOf(req["r1"].pk, req["r1"].user)) = 1

---------------------------------------------------------------------------
(* C7: when two different required approvers decide on one voucher at the  *)
(* same time, once both requests have completed the stored status is the   *)
(* consensus recomputation over the approval records, which hold both      *)
(* decisions.                                                              *)

C7_NoLostUpdate ==
    ( /\ Completed("r1", "decide") /\ Completed("r2", "decide")
      /\ req["r1"].pk = req["r2"].pk
      /\ req["r1"].user # req["r2"].user
      /\ {req["r1"].user, req["r2"].user} \subseteq Eligible )
        => StatusOf(req["r1"].pk) = Consensus(req["r1"].pk)

---------------------------------------------------------------------------
(* C8: the required approvers are read live.  When a configuration request *)
(* completes, every Admin Staff user whose designation it lists is a       *)
(* required approver at once; and a decision APPROVED on a voucher that    *)
(* was APPROVED, after which the number of APPROVED records differs from   *)
(* the number of required approvers, sets the voucher back to PENDING.     *)

\* the id of designation d is among the ids, as a number or as its text
Listed(d, ids) == JInt(d) \in ids \/ JStr(IntToStr(d)) \in ids

C8_RequiredIsLive ==
    [][\A p \in Workers :
          /\ ( /\ req[p].op = "setactive" /\ req[p].pc = "loop"
               /\ req'[p].pc = "done" ) =>
                \A u \in DOMAIN Profile :
                    ( /\ "Admin Staff" \in Groups[u]
                      /\ Profile[u] \in DesignationIds
                      /\ Listed(Profile[u], req[p].arg.ids) )
                        => u \in RequiredApprovers(aad')
          /\ ( /\ Commits(p)
               /\ req[p].arg = "APPROVED"
               /\ vouchers[req[p].pk].status = "APPROVED"
               /\ Cardinality(ApprovedOn(req[p].pk)') # Cardinality(Eligible') ) =>
                vouchers'[req[p].pk].status = "PENDING"]_vars

\* the transaction of an APPROVED decision has recomputed PENDING for a
\* voucher whose committed status is APPROVED
C8_Witness ==
    \E p \in Workers :
        /\ req[p].op = "decide" /\ req[p].pc = "commit"
        /\ req[p].arg = "APPROVED"
        /\ req[p].loc = "PENDING"
        /\ StatusOf(req[p].pk) = "APPROVED"
        /\ Cardinality(Eligible) = 3

---------------------------------------------------------------------------
(* C9: a configuration request leaves the approval records as they are,    *)
(* and a later recomputation counts the records of users who are no longer *)
(* required as stored: a REJECTED one makes the voucher REJECTED, an       *)
(* APPROVED one adds to the count compared with the number required.       *)

\* the records on voucher pk of users who are not required approvers
StaleOn(pk) == {r \in RecordsOn(pk) : r.approver \notin Eligible}

C9_StaleRecordsCount ==
    [][\A p \in Workers :
          /\ (req[p].op = "setactive" \/ req'[p].op = "setactive") =>
                approvals' = approvals
          /\ Commits(p) =>
                LET pk == req[p].pk
                IN  /\ (\E r \in StaleOn(pk)' : r.status = "REJECTED") =>
                            vouchers'[pk].status = "REJECTED"
                    /\ (\A r \in RecordsOn(pk)' : r.status = "APPROVED") =>
                            ( vouchers'[pk].status = "APPROVED"
                                <=> Cardinality(RecordsOn(pk)') = Cardinality(Eligible') )]_vars

\* an APPROVED decision completed on a voucher that stays REJECTED by the
\* record of a user who is no longer required
C9_Witness ==
    \E p \in Workers :
        /\ Completed(p, "decide")
        /\ req[p].arg = "APPROVED"
        /\ StatusOf(req[p].pk) = "REJECTED"
        /\ RejectedOn(req[p].pk) # {}
        /\ \A r \in RejectedOn(req[p].pk) : r.approver \notin Eligible

---------------------------------------------------------------------------
(* C10: when a superuser's configuration request has completed, every      *)
(* designation has an activation record that is active iff the             *)
(* designation's id is among the ids sent, whatever it was before, and no  *)
(* activation record is of an id that no designation has.                  *)

C10_FullReplace ==
    \A p \in Workers :
        Completed(p, "setactive") =>
            /\ IsSuperuser[req[p].user]
            /\ \A d \in DesignationIds :
                  /\ \E r \in aad : r.designation = d
                  /\ \A r \in aad :
                        r.designation = d => (r.is_active <=> Listed(d, req[p].arg.ids))
            /\ \A r \in aad : r.designation \in DesignationIds

\* a request listing designation 1 and the id of no designation completed:
\* designation 2, under which u3 had approved, is inactive
C10_Witness ==
    \E p \in Workers :
        /\ Completed(p, "setactive")
        /\ req[p].arg.ids = {JInt(1), JInt(3)}
        /\ Len(designations) = 2
        /\ \E r \in approvals : r.approver = "u3"
        /\ \E r \in aad : r.designation = 2 /\ ~r.is_active

---------------------------------------------------------------------------
(* C11: for every set D of active designations the required approvers are  *)
(* exactly the Admin Staff users whose profile's designation is in D (none *)
(* when D is empty), whatever the voucher; and the set the model property  *)
(* gives for authorization and consensus is the required_approvers of the  *)
(* voucher projection a decision request returns.                          *)

\* D: the designations whose activation record is active
ActiveSet == {r.designation : r \in {x \in aad : x.is_active}}

C11_RequiredApprovers ==
    /\ RequiredApprovers(aad) =
            {u \in Users : /\ "Admin Staff" \in Groups[u]
                           /\ u \in DOMAIN Profile
                           /\ Profile[u] \in ActiveSet}
    /\ ActiveSet = {} => RequiredApprovers(aad) = {}
    /\ \A p \in Workers :
            Completed(p, "decide") =>
                /\ req[p].out.required_approvers = RequiredApprovers(aad)
                /\ req[p].user \in req[p].out.required_approvers

\* a decision completed with u1 and u2 required while the designation of
\* u3 has an activation record that is not active
C11_Witness ==
    \E p \in Workers :
        /\ Completed(p, "decide")
        /\ req[p].out.required_approvers = {"u1", "u2"}
        /\ \E r \in aad : r.designation = Profile["u3"] /\ ~r.is_active

---------------------------------------------------------------------------
(* C12: every designation has exactly one activation record, never two and *)
(* never none; in particular, when a designation has just been created and *)
(* each designation before it has exactly one record, so has the new one.  *)

ActivationsOf(d) == {r \in aad : r.designation = d}

C12_ExactlyOneActivation ==
    \A p \in Workers :
        ( /\ req[p].pc = "done" /\ req[p].op = "create" /\ req[p].code = 201
          /\ \A d \in 1..(Len(designations) - 1) : Cardinality(ActivationsOf(d)) = 1 )
            => Cardinality(ActivationsOf(Len(designations))) = 1

---------------------------------------------------------------------------
(* C13: a configuration request that follows a completed one with the same *)
(* id list, no other request between them, leaves every designation's      *)
(* activation flag and the required approvers as the first one left them.  *)

C13_SetActiveIdempotent ==
    [][\A p \in Workers :
          ( /\ req[p].op = "setactive" /\ req[p].pc = "loop"
            /\ req'[p].pc = "done" /\ req'[p].code = 200
            /\ lastCall.made
            /\ lastCall.body.ids = req[p].arg.ids )
              => /\ Flags(aad') = lastCall.flags
                 /\ RequiredApprovers(aad') = lastCall.required]_vars

\* the second of two requests in a row that list designation 1 and the id
\* of no designation has completed, with u1 and u2 required
C13_Witness ==
    \E p \in Workers :
        /\ Completed(p, "setactive")
        /\ req[p].arg.ids = {JInt(1), JInt(3)}
        /\ lastCall.again /\ lastCall.body = req[p].arg
        /\ lastCall.required = {"u1", "u2"}
        /\ aad # {}

---------------------------------------------------------------------------
(* C14: the voucher number is read-last-then-increment with nothing to     *)
(* serialize it: two submissions that have both read the last voucher,     *)
(* with no insert since either read, hold the same number; the number of a *)
(* submission whose insert is refused is the number of a persisted         *)
(* voucher.                                                                *)

\* no voucher has been inserted since worker p read the last voucher: the
\* number p computed from it is still free
ReadIsCurrent(p) ==
    /\ req[p].op = "submit" /\ req[p].pc = "insert"
    /\ \A i \in 1..Len(vouchers) : vouchers[i].voucher_number # req[p].loc

C14_SameNumberComputed ==
    /\ (ReadIsCurrent("r1") /\ ReadIsCurrent("r2")) => req["r1"].loc = req["r2"].loc
    /\ \A p \in Workers :
            (req[p].op = "submit" /\ req[p].pc = "done" /\ req[p].code = 500)
                => \E i \in 1..Len(vouchers) : vouchers[i].voucher_number = req[p].loc

\* two submissions computed VCH10000; one is persisted, the insert of the
\* other was refused
C14_Witness ==
    /\ req["r1"].op = "submit" /\ req["r1"].pc = "done" /\ req["r1"].code = 201
    /\ req["r2"].op = "submit" /\ req["r2"].pc = "done" /\ req["r2"].code = 500
    /\ req["r2"].loc = <<"V", "C", "H", "1", "0", "0", "0", "0">>
    /\ vouchers[req["r1"].pk].voucher_number = req["r2"].loc

---------------------------------------------------------------------------
(* C15: every persisted voucher's identifier is VCH and a number padded    *)
(* with zeros to 4 digits; the first voucher gets VCH0001, each later one  *)
(* the number after the highest existing one; the identifiers are pairwise *)
(* distinct and increase in creation order.                                *)

DigitText == <<"0", "1", "2", "3", "4", "5", "6", "7", "8", "9">>

\* VCH and the decimal digits of n, four of them at least
IdentifierOf(n) ==
    <<"V", "C", "H">> \o
        (IF n >= 10000 THEN <<DigitText[((n \div 10000) % 10) + 1]>> ELSE <<>>) \o
        <<DigitText[((n \div 1000) % 10) + 1], DigitText[((n \div 100) % 10) + 1],
          DigitText[((n \div 10) % 10) + 1], DigitText[(n % 10) + 1]>>

\* the numbers an identifier of this model can carry
Numbers == UNION {n..(n + MaxNumbered) : n \in LastNumbers}

\* the number of voucher i, 0 when its identifier is not of the form
NumberOf(rows, i) ==
    IF \E n \in Numbers : rows[i].voucher_number = IdentifierOf(n)
    THEN CHOOSE n \in Numbers : rows[i].voucher_number = IdentifierOf(n)
    ELSE 0

C15_SequentialIdentifiers ==
    [][/\ \A i \in 1..Len(vouchers') : NumberOf(vouchers', i) > 0
       /\ \A i, j \in 1..Len(vouchers') :
              i < j => NumberOf(vouchers', i) < NumberOf(vouchers', j)
       /\ Len(vouchers') > Len(vouchers) =>
              NumberOf(vouchers', Len(vouchers')) =
                  IF Len(vouchers) = 0 THEN 1
                  ELSE NumberOf(vouchers, Len(vouchers)) + 1]_vars

\* VCH0099, VCH0100 and VCH0101 are persisted
C15_Witness ==
    /\ Len(vouchers) = 3
    /\ vouchers[1].voucher_number = <<"V", "C", "H", "0", "0", "9", "9">>
    /\ vouchers[3].voucher_number = <<"V", "C", "H", "0", "1", "0", "1">>

---------------------------------------------------------------------------
(* C16: submit is all-or-nothing: when a submission has failed, no voucher *)
(* and no particular of it is persisted; every persisted voucher that no   *)
(* submission is still writing has all the particulars of its submission,  *)
(* one at least; a voucher just persisted is PENDING with no approval      *)
(* record.                                                                 *)

\* the submissions that are writing the particulars of voucher i
WritingParticularsOf(i) ==
    {p \in Workers : req[p].op = "submit" /\ req[p].pc = "particulars" /\ req[p].pk = i}

ParticularsOf(i) == {x \in particulars : x.voucher = i}

C16_AllOrNothing ==
    /\ \A p \in Workers :
            (req[p].op = "submit" /\ req[p].pc = "done" /\ req[p].code # 201)
                => /\ req[p].pk \notin 1..Len(vouchers)
                   /\ ParticularsOf(req[p].pk) = {}
    /\ \A i \in 1..Len(vouchers) :
            WritingParticularsOf(i) = {} => ParticularsOf(i) # {}
    /\ \A p \in Workers :
            (req[p].op = "submit" /\ req[p].pc = "particulars" /\ req[p].loc = 1)
                => /\ vouchers[req[p].pk].status = "PENDING"
                   /\ {a \in approvals : a.voucher = req[p].pk} = {}

---------------------------------------------------------------------------
(* C17: when an approver who has a decision on a voucher records a new     *)
(* one, the record of (voucher, approver) carries the new decision and the *)
(* time of the new decision, and the response returns that time, not the   *)
(* time of the approver's first decision.                                  *)

C17_FreshTimestamp ==
    [][\A p \in Workers :
          ( /\ req[p].op = "decide" /\ req[p].pc = "commit" /\ req'[p].pc = "done"
            /\ \E a \in approvals : a.voucher = req[p].pk /\ a.approver = req[p].user )
              => /\ \A a \in approvals' :
                        (a.voucher = req[p].pk /\ a.approver = req[p].user)
                            => a.status = req[p].arg /\ a.approved_at = req[p].at
                 /\ req'[p].out.approved_at = req[p].at]_vars

---------------------------------------------------------------------------
(* C18: authorization is checked before the payload: a request of a caller *)
(* who is not authorized for the operation is refused for lack of          *)
(* authorization, valid payload or not; a decision by an Admin Staff user  *)
(* who is not a required approver, sent with a status that is neither      *)
(* APPROVED nor REJECTED, is refused as forbidden, not as an invalid       *)
(* status.                                                                 *)

\* the caller of request r, taken in the current state, is not authorized
\* for its operation
NotAuthorized(r) ==
    CASE r.op = "submit" -> "Accountants" \notin Groups[r.user]
      [] r.op = "decide" -> r.user \notin RequiredApprovers(aad)
      [] r.op \in {"create", "setactive"} -> ~IsSuperuser[r.user]
      [] OTHER -> FALSE

\* the responses that refuse for lack of authorization: the redirect of
\* the group mixins and 403
Refusals == {302, 403}

C18_AuthorizationFirst ==
    [][\A p \in Workers :
          ( /\ req[p].pc = "idle" /\ req'[p].pc # "idle"
            /\ req'[p].op = "decide" => req'[p].pk \in 1..Len(vouchers)
            /\ NotAuthorized(req'[p]) )
              => req'[p].pc = "done" /\ req'[p].code \in Refusals]_vars

---------------------------------------------------------------------------
(* C19: an unauthorized attempt never mutates state: a submission by a     *)
(* user outside Accountants, a decision by a user who is neither Admin     *)
(* Staff nor superuser, a designation creation or a configuration request  *)
(* by a non-superuser is rejected at once and leaves the designations, the *)
(* activation records, the vouchers, the particulars and the approval      *)
(* records unchanged.                                                      *)

\* the caller of request r may not use the endpoint of its operation
Unauthorized(r) ==
    CASE r.op = "submit" -> "Accountants" \notin Groups[r.user]
      [] r.op = "decide" -> ~("Admin Staff" \in Groups[r.user] \/ IsSuperuser[r.user])
      [] r.op \in {"create", "setactive"} -> ~IsSuperuser[r.user]
      [] OTHER -> FALSE

C19_UnauthorizedNeverMutates ==
    [][\A p \in Workers :
          (req[p].pc = "idle" /\ req'[p].pc # "idle" /\ Unauthorized(req'[p]))
              => /\ req'[p].pc = "done"
                 /\ req'[p].code \in {302, 403}
                 /\ UNCHANGED <<designations, aad, vouchers, particulars, approvals>>]_vars

\* u1, who is no superuser, asked for the designation Auditor, which does
\* not exist: refused, and it still does not exist
C19_Witness ==
    /\ req["r1"].op = "create" /\ req["r1"].user = "u1" /\ req["r1"].arg = "Auditor"
    /\ req["r1"].pc = "done" /\ req["r1"].code = 403
    /\ "Auditor" \notin Range(designations)
    /\ Len(vouchers) > 0

---------------------------------------------------------------------------
(* C20: a submission in which a supplied particular has an empty           *)
(* description, or a missing, unparsable or non-positive amount, fails     *)
(* with a validation error and persists nothing, whatever its other        *)
(* particulars are; a submission with no particular fails.                 *)

\* the supplied particular is not a valid one
InvalidParticular(it) ==
    \/ it.description = ""
    \/ it.amount = ""
    \/ ~IsDecimal(it.amount)
    \/ DecimalOf(it.amount) <= 0

C20_InvalidParticularFails ==
    [][\A p \in Workers :
          ( /\ req[p].pc = "idle" /\ req'[p].op = "submit"
            /\ "Accountants" \in Groups[req'[p].user]
            /\ \/ Len(req'[p].arg.particulars) = 0
               \/ \E i \in 1..Len(req'[p].arg.particulars) :
                      InvalidParticular(req'[p].arg.particulars[i]) )
              => /\ req'[p].pc = "done" /\ req'[p].code = 400
                 /\ UNCHANGED <<vouchers, particulars>>]_vars

---------------------------------------------------------------------------
(* C21: a voucher's status is written only by a successful decision        *)
(* request on that voucher: a step that changes the status or the approval *)
(* records of voucher i is the commit of a decision request on i that ends *)
(* with 200; submissions, designation creations, configuration requests,   *)
(* refused decisions and decisions on other vouchers leave them as they    *)
(* are.                                                                    *)

\* this step commits a decision request on voucher i, answered with 200
CommitsDecisionOn(i) ==
    \E p \in Workers :
        /\ req[p].op = "decide" /\ req[p].pk = i /\ req[p].pc = "commit"
        /\ req'[p].pc = "done" /\ req'[p].code = 200

C21_WrittenOnlyByOwnDecision ==
    [][\A i \in 1..Len(vouchers) :
          ( \/ vouchers'[i].status # vouchers[i].status
            \/ ApprovalsOf(approvals', i) # ApprovalsOf(approvals, i) )
              => CommitsDecisionOn(i)]_vars

\* voucher 1 is REJECTED with a record, voucher 2 is APPROVED with one, a
\* third designation exists, and a request on voucher 2 was just refused
C21_Witness ==
    /\ Len(vouchers) = 2 /\ Len(designations) = 3
    /\ vouchers[1].status = "REJECTED" /\ vouchers[2].status = "APPROVED"
    /\ ApprovalsOf(approvals, 1) # {} /\ ApprovalsOf(approvals, 2) # {}
    /\ \E p \in Workers :
            req[p].op = "decide" /\ req[p].pk = 2 /\ req[p].pc = "done" /\ req[p].code = 403

---------------------------------------------------------------------------
(* C22: every write of an approval record on a voucher is made by a user   *)
(* who is a required approver at the moment of the write, also while a     *)
(* configuration request is served: when update_or_create runs, the        *)
(* request's user is among the required approvers.                         *)

C22_WriterIsRequired ==
    [][\A p \in Workers :
          (req[p].op = "decide" /\ req[p].pc = "upsert" /\ req'[p].pc = "recompute")
              => req[p].user \in RequiredApprovers(aad)]_vars

---------------------------------------------------------------------------
(* C23: a configuration request is atomic: when two configuration requests *)
(* served at the same time have both completed, the activation records are *)
(* the full-replace result of the list of one of them, never some          *)
(* designations after one list and some after the other.                   *)

\* the activation records are the full-replace result of the ids sent
FullReplaceOf(ids) ==
    \A d \in DesignationIds :
        /\ \E r \in aad : r.designation = d
        /\ \A r \in aad : r.designation = d => (r.is_active <=> Listed(d, ids))

C23_ConfigurationAtomic ==
    (\A p \in Workers : Completed(p, "setactive"))
        => \E p \in Workers : FullReplaceOf(req[p].arg.ids)

---------------------------------------------------------------------------
(* C24: when a decision request on v has completed and some approver is    *)
(* required, every required approver has an APPROVED record on v and v has *)
(* no REJECTED record, then v is APPROVED, also when v carries APPROVED     *)
(* records of users who are no longer required.                            *)

C24_ApprovedWhenAllRequiredApproved ==
    \A p \in Workers :
        ( /\ Completed(p, "decide")
          /\ Eligible # {}
          /\ \A u \in Eligible : \E r \in ApprovedOn(req[p].pk) : r.approver = u
          /\ RejectedOn(req[p].pk) = {} )
            => StatusOf(req[p].pk) = "APPROVED"

====
